---- MODULE Spec2Model ----
(***************************************************************************)
(* Model of the summarization client of ocr_app (OpenRouterClient): the    *)
(* model-fallback request pipeline with its retry policy (tenacity), the   *)
(* per-client request pacing and the context-length guard.                 *)
(*                                                                         *)
(* Time is counted in whole seconds.  A Python string is modelled either   *)
(* as a sequence of one-character strings (model answers) or as a sequence *)
(* of message fragments (exception texts, the error field).                *)
(***************************************************************************)
EXTENDS Integers, Sequences, FiniteSets, TLC

VARIABLES
    request_delay,      \* self.request_delay
    last_request_time,  \* self.last_request_time
    now,                \* the value time.time() returns
    pc,                 \* position of the processing thread
    text_len,           \* len(text) of the argument of the running call
    models_to_try,      \* local of summarize
    truncated,          \* local of summarize
    text,               \* local of summarize after the context guard
    prompt,             \* local of summarize
    i,                  \* loop index of summarize (0-based, as enumerate)
    attempt_number,     \* tenacity's attempt counter of the running _request
    last_error,         \* local of summarize
    outcome,            \* what the last finished call returned (or raised)
    requests,           \* history: the requests posted by the running call
    last_response,      \* history: the backend's answer to the latest request
    calls,              \* history: number of summarize calls started
    call_start,         \* history: time.time() at entry of the latest call
    first_request,      \* history: start of the first request of that call
    last_answer,        \* history: the content of the answer as the backend sent it
    strategy_name,      \* which strategy class the factory built
    min_files_for_aggregation,  \* self.min_files_for_aggregation
    path_kind,          \* what folder_path names: nothing, a file or a directory
    folder,             \* the files of the folder given to summarize_folder
    pause_between_files,\* argument of summarize_folder
    target_files,       \* local of summarize_folder
    file_i,             \* loop index of summarize_folder (1-based, as enumerate)
    file_summaries,     \* local of summarize_folder
    failed_files,       \* local of summarize_folder
    phase,              \* position of summarize_folder
    folder_result,      \* what summarize_folder returned (or raised)
    events,             \* history: calls to the extractor, to the client, to sleep
    _strategy,          \* the strategy the engine holds
    info,               \* what the latest get_strategy_info returned
    context_budget,     \* context_limit, local of summarize
    max_retries,        \* config.openrouter.max_retries
    extractions,        \* history: the calls to extract_file and what they gave
    extraction,         \* what extract_folder returned (or raised)
    main_pc,            \* position of main
    written,            \* the files save_results has written
    exit_code           \* the code the process exited with (-1: it runs)

vars == <<request_delay, last_request_time, now, pc, text_len,
          models_to_try, truncated, text, prompt, i, attempt_number,
          last_error, outcome, requests, last_response, calls,
          call_start, first_request, last_answer,
          strategy_name, min_files_for_aggregation, path_kind, folder,
          pause_between_files, target_files, file_i, file_summaries, failed_files,
          phase, folder_result, events, _strategy, info,
          context_budget, max_retries, extractions, extraction,
          main_pc, written, exit_code>>

None == "None"

\* None of Python where a text may stand as well
Absent == <<None>>

\* ------------------------------------------------------------------ bounds

\* summarize calls made on the one client instance
MaxCalls == 2
\* longest time (seconds) that passes after a request is posted, spent until
\* its answer arrives and then by the caller, before the thread sleeps again
MaxWait == 1
\* time.sleep may return this many seconds late
MaxLag == 1
\* time.time() when the client is constructed (any value above the delays)
StartTime == 100
\* most files in a folder
MaxFiles == 3

\* request_delay values (config: ge=1.0); one exceeds the retry backoff
RequestDelays == {1, 10}

\* ------------------------------------------------------- program constants

Hermes == "nousresearch/hermes-3-llama-3.1-405b:free"
Mistral == "mistralai/mistral-7b-instruct:nitro"
Gemma2 == "google/gemma-2-9b-it:free"

MODEL_HIERARCHY ==
    [premium |-> <<Hermes>>,
     balanced |-> <<Mistral>>,
     fast |-> <<Mistral, Gemma2>>]

MODEL_CONTEXT_LIMITS ==
    [m \in {"meta-llama/llama-3.3-70b-instruct:free",
            "meta-llama/llama-3.2-3b-instruct:free",
            "google/gemma-3n-e4b-it:free",
            "deepseek/deepseek-r1-0528:free",
            Mistral} |->
        CASE m = "google/gemma-3n-e4b-it:free" -> 6000
          [] m = Mistral -> 28000
          [] OTHER -> 100000]

DefaultContextLimit == 25000
default_strategy == "balanced"
KeepStartMax == 15000
SeparatorBuffer == 100
\* len("\n\n[... ПРОПУЩЕНО ИЗ-ЗА ОГРАНИЧЕНИЯ КОНТЕКСТА ...]\n\n")
MarkerLen == 51
\* the text of _prepare_prompt before and after {text}
TemplateHeadLen == 424
TemplateTailLen == 10
\* tenacity: stop_after_attempt(2), wait_exponential(multiplier=1, min=8, max=20)
StopAfterAttempt == 2
WaitMultiplier == 1
WaitMin == 8
WaitMax == 20
\* OpenRouterConfig.max_retries, default
DefaultMaxRetries == 2
\* SummarizationConfig.min_files_for_aggregation, default
DefaultMinFiles == 2

\* ------------------------------------------------------------------- texts

\* A text is a sequence of segments; a segment is the characters lo..hi
\* (1-based, inclusive) of a source: the input text, the omission marker or
\* one of the two parts of the prompt template.
Seg(src, lo, hi) == IF lo > hi THEN <<>> ELSE <<[src |-> src, lo |-> lo, hi |-> hi]>>

RECURSIVE Length(_)
Length(t) == IF t = <<>> THEN 0 ELSE (Head(t).hi - Head(t).lo + 1) + Length(Tail(t))

Min(a, b) == IF a < b THEN a ELSE b
Max(a, b) == IF a > b THEN a ELSE b

\* text[:k] of an input text of n characters (Python slice: a negative k
\* counts from the end)
SliceTo(n, k) == Seg("text", 1, IF k >= 0 THEN Min(k, n) ELSE Max(n + k, 0))

\* faulty variant: text[k:], the sign of the index is lost
SliceFromPlus(n, k) ==
    LET start == IF k < 0 THEN Max(n + k, 0) ELSE Min(k, n)
    IN  Seg("text", start + 1, n)

\* text[-k:] of an input text of n characters: the slice starts at index -k,
\* which counts from the end only when it is negative (text[-0:] is the text)
SliceFromMinus(n, k) ==
    LET start == IF 0 - k < 0 THEN Max(n - k, 0) ELSE Min(0 - k, n)
    IN  Seg("text", start + 1, n)

Marker == Seg("marker", 1, MarkerLen)

\* dict.get(key, default) on MODEL_CONTEXT_LIMITS
ContextLimit(model) ==
    IF model \in DOMAIN MODEL_CONTEXT_LIMITS
    THEN MODEL_CONTEXT_LIMITS[model]
    ELSE DefaultContextLimit

\* int(context_limit * 0.6)
KeepStart(context_limit) == Min(KeepStartMax, (context_limit * 6) \div 10)
KeepEnd(context_limit) == context_limit - KeepStart(context_limit) - SeparatorBuffer

\* faulty variant: off by one: a text one character over the budget passes
ExceedsLimitByTwo(n, context_limit) == n > context_limit + 1

\* faulty variant: a text of exactly the budget is cut as well
ExceedsLimitOrEqual(n, context_limit) == n >= context_limit

\* the condition of the context guard: len(text) > context_limit
ExceedsLimit(n, context_limit) == n > context_limit

\* the text summarize puts in the prompt, for an input of n characters
GuardedText(n, context_limit) ==
    IF ExceedsLimit(n, context_limit)
    THEN SliceTo(n, KeepStart(context_limit)) \o Marker
         \o SliceFromMinus(n, KeepEnd(context_limit))
    ELSE Seg("text", 1, n)

_prepare_prompt(t) ==
    Seg("template_head", 1, TemplateHeadLen) \o t \o Seg("template_tail", 1, TemplateTailLen)

\* strategy = strategy or self.default_strategy;
\* MODEL_HIERARCHY.get(strategy, MODEL_HIERARCHY["balanced"])
SelectModels(strategy) ==
    LET s == IF strategy = None \/ strategy = "" THEN default_strategy ELSE strategy
    IN  IF s \in DOMAIN MODEL_HIERARCHY THEN MODEL_HIERARCHY[s] ELSE MODEL_HIERARCHY["balanced"]

\* ----------------------------------------------------------------- answers

\* str.strip() / str.lstrip() without argument: whitespace
Whitespace == {" ", "\n"}

RECURSIVE LStripChars(_, _)
\* s.lstrip(chars): drops leading characters while they are in the set chars
LStripChars(s, chars) ==
    IF s # <<>> /\ Head(s) \in chars THEN LStripChars(Tail(s), chars) ELSE s

RECURSIVE RStripChars(_, _)
RStripChars(s, chars) ==
    IF s # <<>> /\ s[Len(s)] \in chars
    THEN RStripChars(SubSeq(s, 1, Len(s) - 1), chars)
    ELSE s

Strip(s) == RStripChars(LStripChars(s, Whitespace), Whitespace)

\* "Summary:" and its Russian counterpart as character sequences
LabelEn == <<"S", "u", "m", "m", "a", "r", "y", ":">>
LabelRu == <<"Ru_S", "Ru_a", "Ru_m", "Ru_m", "Ru_a", "Ru_r", "Ru_i", ":">>

\* the characters of "Саммари:" (transliterated Ru_*) and of "Summary:"
LabelRuChars == {"Ru_S", "Ru_a", "Ru_m", "Ru_r", "Ru_i", ":"}
LabelEnChars == {"S", "u", "m", "a", "r", "y", ":"}

\* summary.lstrip("Саммари:").lstrip("Summary:").strip()
PostProcess(answer) == Strip(LStripChars(LStripChars(answer, LabelRuChars), LabelEnChars))

\* ---------------------------------------------------------------- backend

\* what the backend can do with one posted request
Responses ==
    {"ok", "http429", "http402", "http400_invalid_model", "http_error",
     "timeout", "no_choices"}

\* the content of an answer, as a sequence of characters
Answers ==
    {<<"o", "k">>,
     <<" ", "o", "k", "\n">>,
     <<"S", "u", "m", "m", "a", "r", "y", ":", " ", "o", "k">>,
     <<"Ru_S", "Ru_a", "Ru_m", "Ru_m", "Ru_a", "Ru_r", "Ru_i", ":", " ", "o", "k">>}

\* the subclasses of requests.exceptions.RequestException among the types raised
IsRequestException(type) == type \in {"RequestException", "HTTPError", "Timeout"}

\* the subclasses of Exception: every type raised here
IsException(type) ==
    \/ IsRequestException(type)
    \/ type \in {"TimeoutError", "ValueError", "RetryError"}

\* the exception the body of _request raises for a response (message as fragments)
Raised(resp) ==
    CASE resp = "http429" ->
           [type |-> "RequestException", msg |-> <<"Rate limit (429)">>]
      [] resp = "http402" ->
           [type |-> "RequestException", msg |-> <<"Credit limit exceeded (402)">>]
      [] resp = "http400_invalid_model" ->
           [type |-> "RequestException", msg |-> <<"Invalid model ID (400)">>]
      [] resp = "http_error" ->
           [type |-> "HTTPError", msg |-> <<"<status> Error: <reason> for url: <url>">>]
      [] resp = "timeout" ->
           [type |-> "Timeout", msg |-> <<"Read timed out. (read timeout=120)">>]
      [] resp = "no_choices" ->
           [type |-> "ValueError", msg |-> <<"Nekorrektnyi otvet API: ", "<result>">>]

\* retry_if_exception_type((requests.exceptions.RequestException, TimeoutError))
ShouldRetry(e) == IsRequestException(e.type) \/ e.type = "TimeoutError"

\* faulty variant: no second attempt
ShouldStopAtOnce(attempt) == attempt >= 1

\* faulty variant: the attempts are counted against the configured number
ShouldStopConfigured(attempt) == attempt >= max_retries

\* stop_after_attempt(2)
ShouldStop(attempt) == attempt >= StopAfterAttempt

RECURSIVE Pow2(_)
Pow2(k) == IF k <= 0 THEN 1 ELSE 2 * Pow2(k - 1)

\* faulty variant: the wait without its lower limit
WaitSecondsUnclamped(attempt) == Min(WaitMultiplier * Pow2(attempt - 1), WaitMax)

\* wait_exponential(multiplier=1, min=8, max=20) after the given attempt
WaitSeconds(attempt) ==
    Max(Max(0, WaitMin), Min(WaitMultiplier * Pow2(attempt - 1), WaitMax))

\* tenacity's decision after a failed attempt: re-raise an exception the retry
\* predicate rejects, give up with RetryError once the stop condition holds
\* (reraise is not set), otherwise sleep and call again
RetryAction(e, attempt) ==
    IF ~ShouldRetry(e) THEN "raise"
    ELSE IF ShouldStop(attempt) THEN "retry_error"
    ELSE "sleep"

\* str(RetryError): "RetryError[<Future at 0x... state=finished raised T>]"
RetryError(e) ==
    [type |-> "RetryError",
     msg |-> <<"RetryError[<Future at ", "<address>", " state=finished raised ",
               e.type, ">]">>]

\* the exception that leaves the decorated _request after a failed attempt
\* that is not retried
Propagated(e, attempt) ==
    IF RetryAction(e, attempt) = "retry_error" THEN RetryError(e) ELSE e

\* faulty variant: except requests.exceptions.RequestException as e
CaughtRequestOnly(e) == IsRequestException(e.type)

\* except Exception as e (summarize)
Caught(e) == IsException(e.type)

\* faulty variant: the wait is one second short
SleepTimeShort(t, last, delay) == IF t - last < delay - 1 THEN delay - 1 - (t - last) ELSE 0

\* _enforce_rate_limit: the argument of time.sleep (0: no sleep)
SleepTime(t, last, delay) == IF t - last < delay THEN delay - (t - last) ELSE 0

\* faulty variant: a sleep that was entered does not return
AfterSleepNever(t, d) == IF d > 0 THEN {} ELSE {t}

\* time.sleep(d) returns after at least d seconds
AfterSleep(t, d) == IF d > 0 THEN (t + d)..(t + d + MaxLag) ELSE {t}

\* ---------------------------------------------------------------- outcomes

\* faulty variant: the flag is raised for every winner
FallbackUsedAlways(idx) == idx >= 0

\* i > 0
FallbackUsed(idx) == idx > 0

\* faulty variant: the first candidate is named whatever the loop index
ModelAtFirst(models, idx) == models[1]

\* for i, model in enumerate(models_to_try): the model of index i
ModelAt(models, idx) == models[idx + 1]

SuccessOutcome(summary, model, idx, trunc, p) ==
    [summary |-> summary,
     model_used |-> model,
     success |-> TRUE,
     fallback_used |-> FallbackUsed(idx),
     metadata |-> [fallback_used |-> FallbackUsed(idx),
                   truncated |-> trunc,
                   tokens_input |-> Length(p) \div 4,
                   tokens_output |-> Len(summary) \div 4],
     error |-> Absent]

ErrorPrefix == "Vse modeli nedostupny. Poslednyaya oshibka: "

\* faulty variant: the failure outcome does not pass the flag on
FailureOutcomeUnflagged(models, trunc, err) ==
    [summary |-> Absent,
     model_used |-> IF models # <<>> THEN models[1] ELSE "unknown",
     success |-> FALSE,
     fallback_used |-> TRUE,
     metadata |-> [fallback_used |-> TRUE,
                   truncated |-> FALSE,
                   attempted_models |-> models],
     error |-> <<ErrorPrefix>> \o (IF err = <<>> THEN <<"None">> ELSE err)]

\* last_error is kept as message fragments; <<>> stands for None
FailureOutcome(models, trunc, err) ==
    [summary |-> Absent,
     model_used |-> IF models # <<>> THEN models[1] ELSE "unknown",
     success |-> FALSE,
     fallback_used |-> TRUE,
     metadata |-> [fallback_used |-> TRUE,
                   truncated |-> trunc,
                   attempted_models |-> models],
     error |-> <<ErrorPrefix>> \o (IF err = <<>> THEN <<"None">> ELSE err)]

Returned(value) == [kind |-> "returned", value |-> value]
Escaped(e) == [kind |-> "raised", exc |-> e]
Running == [kind |-> "running"]

\* ------------------------------------------------------------------ inputs

TemplateLen == TemplateHeadLen + TemplateTailLen

\* the budgets of the first candidate models
FirstLimits == {ContextLimit(MODEL_HIERARCHY[s][1]) : s \in DOMAIN MODEL_HIERARCHY}

\* lengths of input texts: around each first-model budget, and around the
\* lengths whose prepared prompt just reaches the budget
TextLens ==
    {0, 40000} \cup
    UNION {{L - TemplateLen, L - TemplateLen + 1, L, L + 1} : L \in FirstLimits}

\* the two lengths the request pipeline is exercised with: within every
\* budget, and above every budget
PipelineLens == {CHOOSE L \in FirstLimits : \A M \in FirstLimits : L <= M,
                 1 + CHOOSE L \in FirstLimits : \A M \in FirstLimits : L >= M}

\* the strategy argument: absent, empty, the three known names, an unknown name
Strategies == {None, "", "premium", "balanced", "fast", "turbo"}

\* ------------------------------------------------------------------- state

ClientInit ==
    /\ request_delay \in RequestDelays
    /\ last_request_time = 0
    /\ now = StartTime
    /\ pc = "idle"
    /\ text_len = 0
    /\ models_to_try = <<>>
    /\ truncated = FALSE
    /\ text = <<>>
    /\ prompt = <<>>
    /\ i = 0
    /\ attempt_number = 1
    /\ last_error = <<>>
    /\ outcome = Running
    /\ requests = <<>>
    /\ last_response = "none"
    /\ calls = 0
    /\ call_start = -1
    /\ first_request = -1
    /\ last_answer = <<>>
    /\ context_budget = 0

\* no folder run has started
NoRun ==
    /\ path_kind = "directory"
    /\ folder = <<>>
    /\ pause_between_files = 0
    /\ target_files = <<>>
    /\ file_i = 1
    /\ file_summaries = <<>>
    /\ failed_files = <<>>
    /\ phase = "idle"
    /\ folder_result = Running
    /\ events = <<>>
    /\ info = [name |-> None]
    /\ extractions = <<>>
    /\ extraction = Running
    /\ main_pc = "idle"
    /\ written = {}
    /\ exit_code = -1

\* a strategy object: its class and what its constructor was given
Strategy(name, minimum) == [name |-> name, min_files_for_aggregation |-> minimum]

\* the client, with the strategy the default configuration builds
Init ==
    /\ ClientInit
    /\ strategy_name = "hierarchical"
    /\ min_files_for_aggregation = DefaultMinFiles
    /\ _strategy = Strategy("hierarchical", DefaultMinFiles)
    /\ max_retries = DefaultMaxRetries
    /\ NoRun

extractor == <<extractions, extraction>>
toplevel == <<main_pc, written, exit_code>>

run == <<strategy_name, min_files_for_aggregation, path_kind, folder,
         pause_between_files, target_files, file_i, file_summaries, failed_files,
         phase, folder_result, events, _strategy, info, max_retries,
         extractor, toplevel>>

client == <<request_delay, last_request_time>>
locals == <<text_len, models_to_try, truncated, text, prompt, context_budget>>
pacing == <<call_start, first_request>>

\* summarize, lines 214-234: model selection, context guard, prompt
Summarize(n, strategy) ==
    /\ pc = "idle"
    /\ calls < MaxCalls
    /\ LET models == SelectModels(strategy)
           context_limit == ContextLimit(models[1])
       IN  /\ models_to_try' = models
           /\ context_budget' = context_limit
           /\ truncated' = ExceedsLimit(n, context_limit)
           /\ text' = GuardedText(n, context_limit)
           /\ prompt' = _prepare_prompt(GuardedText(n, context_limit))
    /\ text_len' = n
    /\ last_error' = <<>>
    /\ i' = 0
    /\ attempt_number' = 1
    /\ outcome' = Running
    /\ requests' = <<>>
    /\ last_response' = "none"
    /\ calls' = calls + 1
    /\ call_start' = now
    /\ last_answer' = <<>>
    /\ pc' = "request"
    /\ UNCHANGED <<client, now, first_request, run>>

\* _request up to session.post: _enforce_rate_limit, then the request goes out
SendRequest ==
    /\ pc = "request"
    /\ \E t \in AfterSleep(now, SleepTime(now, last_request_time, request_delay)) :
          /\ now' = t
          /\ last_request_time' = t
          /\ first_request' = IF requests = <<>> THEN t ELSE first_request
    /\ requests' = Append(requests,
                          [model |-> i, attempt |-> attempt_number, result |-> "pending"])
    /\ last_response' = "none"
    /\ pc' = "posting"
    /\ UNCHANGED <<request_delay, locals, i, attempt_number, last_error, outcome,
                   calls, call_start, last_answer, run>>

\* time passes while the backend works on a request, or between two calls
Tick ==
    /\ pc \in {"posting", "idle"}
    /\ pc = "idle" => calls \in 1..(MaxCalls - 1)
    /\ now - last_request_time < MaxWait
    /\ now' = now + 1
    /\ UNCHANGED <<client, pc, locals, i, attempt_number, last_error, outcome,
                   requests, last_response, calls, pacing, last_answer, run>>

Settle(result) ==
    [requests EXCEPT ![Len(requests)] = [@ EXCEPT !.result = result]]

\* _request lines 169-175 and summarize lines 239-253: an answer arrives
ReceiveAnswer(answer) ==
    /\ pc = "posting"
    /\ outcome' = Returned(SuccessOutcome(PostProcess(Strip(answer)),
                                           ModelAt(models_to_try, i), i, truncated, prompt))
    /\ requests' = Settle("answer")
    /\ last_response' = "ok"
    /\ last_answer' = answer
    /\ pc' = "idle"
    /\ UNCHANGED <<client, now, locals, i, attempt_number, last_error, calls, pacing,
                   run>>

\* _request lines 147-171 and 177-179 raise; tenacity decides; summarize
\* lines 255-273 handle what leaves _request
ReceiveFailure(resp) ==
    /\ pc = "posting"
    /\ resp # "ok"
    /\ requests' = Settle("failure")
    /\ last_response' = resp
    /\ LET e == Raised(resp)
           out == Propagated(e, attempt_number)
       IN  IF RetryAction(e, attempt_number) = "sleep"
           THEN /\ pc' = "backoff"
                /\ UNCHANGED <<i, attempt_number, last_error, outcome>>
           ELSE IF ~Caught(out)
           THEN /\ pc' = "idle"
                /\ outcome' = Escaped(out)
                /\ UNCHANGED <<i, attempt_number, last_error>>
           ELSE IF i < Len(models_to_try) - 1
           THEN /\ pc' = "request"
                /\ last_error' = out.msg
                /\ i' = i + 1
                /\ attempt_number' = 1
                /\ UNCHANGED outcome
           ELSE /\ pc' = "idle"
                /\ last_error' = out.msg
                /\ outcome' = Returned(FailureOutcome(models_to_try, truncated, out.msg))
                /\ UNCHANGED <<i, attempt_number>>
    /\ UNCHANGED <<client, now, locals, calls, pacing, last_answer, run>>

\* tenacity sleeps wait_exponential seconds, then calls _request again
Backoff ==
    /\ pc = "backoff"
    /\ now' \in AfterSleep(now, WaitSeconds(attempt_number))
    /\ attempt_number' = attempt_number + 1
    /\ pc' = "request"
    /\ UNCHANGED <<client, locals, i, last_error, outcome, requests, last_response,
                   calls, pacing, last_answer, run>>

Next ==
    \/ \E n \in PipelineLens, strategy \in Strategies : Summarize(n, strategy)
    \/ SendRequest
    \/ Tick
    \/ \E answer \in Answers : ReceiveAnswer(answer)
    \/ \E resp \in Responses : ReceiveFailure(resp)
    \/ Backoff

Spec == Init /\ [][Next]_vars

\* The context guard with every text length, against a backend that answers
\* at once or returns a body without choices.
NextGuard ==
    \/ \E n \in TextLens, strategy \in Strategies : Summarize(n, strategy)
    \/ SendRequest
    \/ \E answer \in {<<"o", "k">>} : ReceiveAnswer(answer)
    \/ \E resp \in {"no_choices"} : ReceiveFailure(resp)

SpecGuard == Init /\ [][NextGuard]_vars

\* answers with and without a label, answers that only share characters
\* with a label, a label with nothing after it, and a blank answer
LabelAnswers ==
    Answers \cup
    {LabelEn \o <<" ">>,
     <<" ", "\n">>,
     <<"m", "a", "r", "s">>,
     <<"S", "u", "m", "m", "a", "r", "y", ":", " ", "m", "a", "r", "s">>,
     <<"Ru_S", "Ru_a", "Ru_m", "Ru_m", "Ru_a", "Ru_r", "Ru_i", ":", " ", "S", "u", "m">>,
     <<"Ru_m", "Ru_i", "Ru_r", " ", "o", "k">>,
     <<"\n", "a", ":", "b", " ">>}

\* Post-processing of the answer: one text, a backend that always answers.
NextLabel ==
    \/ \E n \in PipelineLens, strategy \in Strategies : Summarize(n, strategy)
    \/ SendRequest
    \/ \E answer \in LabelAnswers : ReceiveAnswer(answer)

SpecLabel == Init /\ [][NextLabel]_vars

\* the small budgets the context guard is exercised with
MaxBudget == 30

\* context budgets: the small ones, the ones around the least budget whose
\* tail is positive, and the budgets of the first candidate models
Budgets == (1..MaxBudget) \cup {250, 251, 300} \cup FirstLimits

\* lengths of texts for a budget: at the budget and above it
LensFor(context_limit) ==
    {context_limit, context_limit + 1, context_limit + 2, 2 * context_limit,
     context_limit + 1000}

\* The context guard of summarize (lines 218-231) as a function of the budget
\* of the first candidate, which the class reads from MODEL_CONTEXT_LIMITS.
ContextGuard(n, context_limit) ==
    /\ pc = "idle"
    /\ text_len' = n
    /\ context_budget' = context_limit
    /\ truncated' = ExceedsLimit(n, context_limit)
    /\ text' = GuardedText(n, context_limit)
    /\ UNCHANGED <<client, now, pc, models_to_try, prompt, i, attempt_number,
                   last_error, outcome, requests, last_response, calls, pacing,
                   last_answer, run>>

NextBudget ==
    \E context_limit \in Budgets :
        \E n \in LensFor(context_limit) : ContextGuard(n, context_limit)

SpecBudget == Init /\ [][NextBudget]_vars

\* max_retries values (config: ge=1, default 2)
RetryCounts == {1, DefaultMaxRetries, 3, 5}

\* the client the factory builds from a configuration with any retry count:
\* get_client passes request_delay and no retry count
InitRetry ==
    /\ ClientInit
    /\ strategy_name = "hierarchical"
    /\ min_files_for_aggregation = DefaultMinFiles
    /\ _strategy = Strategy("hierarchical", DefaultMinFiles)
    /\ max_retries \in RetryCounts
    /\ NoRun

\* The retry policy: one text, every failure of the backend.
NextRetry ==
    \/ \E strategy \in {None, "fast"} : Summarize(DefaultContextLimit, strategy)
    \/ SendRequest
    \/ ReceiveAnswer(<<"o", "k">>)
    \/ \E resp \in Responses \ {"ok"} : ReceiveFailure(resp)
    \/ Backoff

SpecRetry == InitRetry /\ [][NextRetry]_vars

\* ------------------------------------------------------------ folder runs

SUPPORTED_IMAGE_EXTS == {".jpg", ".jpeg", ".webp", ".png", ".bmp", ".tiff"}
SUPPORTED_PDF_EXTS == {".pdf"}
supported_extensions == SUPPORTED_PDF_EXTS \cup SUPPORTED_IMAGE_EXTS

\* str.lower() on the suffixes used here
Lower(suffix) ==
    CASE suffix = ".PDF" -> ".pdf"
      [] suffix = ".JPG" -> ".jpg"
      [] OTHER -> suffix

\* A page of a document: the text the backend reads from it (page.extract_text
\* of pdfplumber, image_to_string of pytesseract), or the backend raises.
Page(t) == [text |-> t, raises |-> FALSE]
BadPage == [text |-> <<>>, raises |-> TRUE]

\* A file path: what path.exists() does with it ("yes", "no", or "raises":
\* os.stat fails with an error pathlib passes on, such as ENAMETOOLONG), its
\* suffix, whether pdfplumber.open / Image.open accept the file, its pages.
File(exists, suffix, opens, pages) ==
    [exists |-> exists, suffix |-> suffix, opens |-> opens, pages |-> pages]

\* The files of the folder runs: a text file, a PDF without a text layer, a
\* PDF with text, an image with text.
FileKinds ==
    {File("yes", ".txt", TRUE, <<Page(<<"a">>)>>),
     File("yes", ".pdf", TRUE, <<Page(<<>>)>>),
     File("yes", ".pdf", TRUE, <<Page(<<" ", "a", "b">>)>>),
     File("yes", ".JPG", TRUE, <<Page(<<"a">>)>>)}

\* the folders: up to MaxFiles files, in the order glob yields them
Folders == UNION {[1..n -> FileKinds] : n \in 0..MaxFiles}

\* pause_between_files values (config: ge=0.0, default 2.0)
Pauses == {0, 2}

\* min_files_for_aggregation values (config: ge=1, default 2)
MinFiles == {1, DefaultMinFiles}

\* f"\n--- Страница {page_num} ---\n{page_text}\n"
PageBlock(page_num, page_text) ==
    <<"\n", "--- Stranitsa ", ToString(page_num), " ---", "\n">> \o page_text \o <<"\n">>

\* the loop of _extract_pdf over the first k pages: a page with text adds its
\* block, a page that raises ends the loop with the text read so far
RECURSIVE PdfText(_, _)
PdfText(pages, k) ==
    IF k = 0 THEN [text |-> <<>>, raised |-> FALSE]
    ELSE LET before == PdfText(pages, k - 1)
         IN  IF before.raised THEN before
             ELSE IF pages[k].raises THEN [text |-> before.text, raised |-> TRUE]
             ELSE IF pages[k].text # <<>>
                  THEN [text |-> before.text \o PageBlock(k, pages[k].text),
                        raised |-> FALSE]
             ELSE before

\* _extract_pdf: the except clause only logs, and text.strip() is returned
\* after it, with or without an error
_extract_pdf(f) ==
    IF ~f.opens THEN Strip(<<>>)
    ELSE Strip(PdfText(f.pages, Len(f.pages)).text)

\* _extract_image: the stripped OCR text, "" on any error
_extract_image(f) ==
    IF ~f.opens \/ f.pages[1].raises THEN <<>>
    ELSE Strip(f.pages[1].text)

\* faulty variant: the suffix is compared as it is written
DispatchCaseSensitive(f) ==
    IF f.exists # "yes" THEN None
    ELSE IF f.suffix \in SUPPORTED_PDF_EXTS THEN "_extract_pdf"
    ELSE IF f.suffix \in SUPPORTED_IMAGE_EXTS THEN "_extract_image"
    ELSE None

\* the handler extract_file calls for a path that exists() answers for
Dispatch(f) ==
    IF f.exists # "yes" THEN None
    ELSE LET ext == Lower(f.suffix)
         IN  IF ext \in SUPPORTED_PDF_EXTS THEN "_extract_pdf"
             ELSE IF ext \in SUPPORTED_IMAGE_EXTS THEN "_extract_image"
             ELSE None

\* extract_file for a path that exists() answers for: "" for a missing file
\* and for an unsupported suffix, otherwise what the handler returns
extract_file(f) ==
    CASE Dispatch(f) = "_extract_pdf" -> _extract_pdf(f)
      [] Dispatch(f) = "_extract_image" -> _extract_image(f)
      [] OTHER -> <<>>

\* the files of the folder with a supported suffix, as positions in the folder
TargetFiles(f) ==
    SelectSeq([k \in 1..Len(f) |-> k],
              LAMBDA k : Lower(f[k].suffix) \in supported_extensions)

\* what client.summarize can return to a strategy: a summary, a success
\* whose summary is empty after post-processing, or the failure of all models
ClientResults ==
    <<SuccessOutcome(PostProcess(<<"o", "k">>), Mistral, 0, FALSE, _prepare_prompt(<<>>)),
      SuccessOutcome(PostProcess(LabelEn), Mistral, 0, FALSE, _prepare_prompt(<<>>)),
      FailureOutcome(SelectModels(default_strategy), FALSE, Raised("no_choices").msg)>>

\* the path of a target file: the folder (0), then the file's position in it
PathIn(k) == <<0, k>>

\* file_path.relative_to(folder)
relative_to(file_path) == Tail(file_path)

\* Path(...).name
Name(file_path) == file_path[Len(file_path)]

\* result["success"] and result["summary"]
Usable(res) == res.success /\ res.summary # <<>>

\* faulty variant: the default description instead of the client's error
_summarize_single_file_default_error(file_path, txt, res) ==
    IF Strip(txt) = <<>>
    THEN [file |-> file_path,
          status |-> "empty",
          summary |-> Absent,
          original_length |-> 0,
          summary_length |-> 0]
    ELSE IF Usable(res)
    THEN [file |-> file_path,
          status |-> "success",
          summary |-> res.summary,
          model_used |-> res.model_used,
          original_length |-> Len(txt),
          summary_length |-> Len(res.summary),
          metadata |-> res.metadata]
    ELSE [file |-> file_path,
          status |-> "error",
          error |-> <<"Neizvestnaya oshibka">>,
          summary |-> Absent,
          original_length |-> Len(txt),
          summary_length |-> 0,
          metadata |-> res.metadata]

\* _summarize_single_file, given the extracted text and, for a text that is
\* not blank, the client's result
_summarize_single_file(file_path, txt, res) ==
    IF Strip(txt) = <<>>
    THEN [file |-> file_path,
          status |-> "empty",
          summary |-> Absent,
          original_length |-> 0,
          summary_length |-> 0]
    ELSE IF Usable(res)
    THEN [file |-> file_path,
          status |-> "success",
          summary |-> res.summary,
          model_used |-> res.model_used,
          original_length |-> Len(txt),
          summary_length |-> Len(res.summary),
          metadata |-> res.metadata]
    ELSE [file |-> file_path,
          status |-> "error",
          error |-> res.error,
          summary |-> Absent,
          original_length |-> Len(txt),
          summary_length |-> 0,
          metadata |-> res.metadata]

\* faulty variant: the simple strategy reports the stripped length
simple_summarize_single_file_stripped(file_path, txt, res) ==
    IF Strip(txt) = <<>>
    THEN [file |-> file_path,
          status |-> "empty",
          summary |-> Absent,
          original_length |-> 0,
          summary_length |-> 0]
    ELSE IF res.success /\ res.summary # <<>>
    THEN [file |-> file_path,
          status |-> "success",
          summary |-> res.summary,
          model_used |-> res.model_used,
          original_length |-> Len(txt) - 1,
          summary_length |-> Len(res.summary),
          metadata |-> res.metadata]
    ELSE [file |-> file_path,
          status |-> "error",
          error |-> res.error,
          summary |-> Absent,
          original_length |-> Len(txt) - 1,
          summary_length |-> 0,
          metadata |-> res.metadata]

\* _summarize_single_file of the simple strategy
simple_summarize_single_file(file_path, txt, res) ==
    IF Strip(txt) = <<>>
    THEN [file |-> file_path,
          status |-> "empty",
          summary |-> Absent,
          original_length |-> 0,
          summary_length |-> 0]
    ELSE IF res.success /\ res.summary # <<>>
    THEN [file |-> file_path,
          status |-> "success",
          summary |-> res.summary,
          model_used |-> res.model_used,
          original_length |-> Len(txt),
          summary_length |-> Len(res.summary),
          metadata |-> res.metadata]
    ELSE [file |-> file_path,
          status |-> "error",
          error |-> res.error,
          summary |-> Absent,
          original_length |-> Len(txt),
          summary_length |-> 0,
          metadata |-> res.metadata]

\* the entries with status success
Succeeded(summaries) == SelectSeq(summaries, LAMBDA s : s.status = "success")

\* faulty variant: the minimum is not looked at
MeetsMinimumAlways(summaries, minimum) == TRUE

\* faulty variant: the minimum itself is not enough
MeetsMinimumStrictly(summaries, minimum) == Len(Succeeded(summaries)) > minimum

\* the condition of line 76
MeetsMinimum(summaries, minimum) == Len(Succeeded(summaries)) >= minimum

\* successful, lines 125-128
Successful(summaries) ==
    SelectSeq(summaries, LAMBDA s : s.status = "success" /\ s.summary # <<>>)

\* the labelled blocks of the first n successful summaries
RECURSIVE Blocks(_, _)
Blocks(successful, n) ==
    IF n = 0 THEN <<>>
    ELSE Append(Blocks(successful, n - 1),
                [document |-> n, filename |-> Name(successful[n].file),
                 summary |-> successful[n].summary])

\* aggregation_text: the header, then one labelled block per successful summary
aggregation_text(successful) ==
    <<"Sammari otdelnykh dokumentov:">> \o Blocks(successful, Len(successful))

AggregationFailedPrefix == "Ne udalos sozdat obshchiy obzor.\nPrichina: "

\* faulty variant: the fallback message without the reason
AggregationFailedBare(res) == <<AggregationFailedPrefix>>

\* the fallback message of lines 144-147; result.get('error') of a success
\* outcome is None
AggregationFailed(res) ==
    <<AggregationFailedPrefix>> \o (IF res.success THEN <<"None">> ELSE res.error)

\* whether _aggregate_summaries calls the client
AggregationCalled(summaries) == Successful(summaries) # <<>>

\* _aggregate_summaries, given the client's result
_aggregate_summaries(summaries, res) ==
    IF ~AggregationCalled(summaries) THEN Absent
    ELSE IF Usable(res) THEN res.summary
    ELSE AggregationFailed(res)

\* faulty variant: the simple strategy aggregates as well
AggregatesAlways(name) == TRUE

\* only the hierarchical strategy has lines 74-77
Aggregates(name) == name = "hierarchical"

NoDocuments == <<"V papke ne naydeno podderzhivaemykh dokumentov (.pdf, .jpg, .webp i dr.)">>

\* faulty variant: the simple empty result carries the message as well
EmptyOverviewMessage(name) == NoDocuments

\* faulty variant: the hierarchical empty result has no overview either
EmptyOverviewAbsent(name) == Absent

\* the overview of _build_empty_result
EmptyOverview(name) == IF name = "hierarchical" THEN NoDocuments ELSE Absent

_build_empty_result(name) ==
    [overview |-> EmptyOverview(name),
     file_summaries |-> <<>>,
     metadata |-> [strategy |-> name,
                   total_files |-> 0,
                   processed |-> 0,
                   failed |-> <<>>]]

\* faulty variant: every file counts as processed
_build_result_all_processed(name, summaries, overview, failed) ==
    [overview |-> overview,
     file_summaries |-> summaries,
     metadata |-> [strategy |-> name,
                   total_files |-> Len(summaries),
                   processed |-> Len(summaries),
                   failed |-> failed]]

_build_result(name, summaries, overview, failed) ==
    [overview |-> overview,
     file_summaries |-> summaries,
     metadata |-> [strategy |-> name,
                   total_files |-> Len(summaries),
                   processed |-> Len(Succeeded(summaries)),
                   failed |-> failed]]

\* _build_result of the simple strategy
simple_build_result(summaries, failed) ==
    [overview |-> Absent,
     file_summaries |-> summaries,
     metadata |-> [strategy |-> "simple",
                   total_files |-> Len(summaries),
                   processed |-> Len(SelectSeq(summaries, LAMBDA s : s.status = "success")),
                   failed |-> failed]]

\* what folder_path can name
PathKinds == {"missing", "file", "directory"}

\* faulty variant: a file passes for a folder
IsPresent(kind) == kind # "missing"

\* folder.exists() and folder.is_dir()
IsFolder(kind) == kind = "directory"

\* faulty variant: a pause after the last file as well
PauseTakenAfterEach(idx, n, pause) == idx <= n /\ pause > 0

\* i < len(target_files) and pause_between_files > 0
PauseTaken(idx, n, pause) == idx < n /\ pause > 0

\* faulty variant: the loop does not advance through the list
CurrentFileFirst(targets, idx) == targets[1]

\* for i, file_path in enumerate(target_files, 1): the file of index i
CurrentFile(targets, idx) == targets[idx]

\* the strategy the factory builds from the configuration
InitFolder ==
    /\ ClientInit
    /\ strategy_name \in {"hierarchical", "simple"}
    /\ min_files_for_aggregation \in MinFiles
    /\ _strategy = Strategy(strategy_name, min_files_for_aggregation)
    /\ max_retries = DefaultMaxRetries
    /\ NoRun

clientside == <<request_delay, last_request_time, now, pc, text_len,
                models_to_try, truncated, text, prompt, i, attempt_number,
                last_error, outcome, requests, last_response, calls,
                call_start, first_request, last_answer, context_budget,
                max_retries>>

strategy == <<strategy_name, min_files_for_aggregation>>

engine == <<_strategy, info>>

\* summarize_folder of the strategy object self, up to the loop: the folder
\* check, the target files, and the empty result
StartRun(self, f, kind, pause) ==
    /\ kind # "directory" => f = <<>>
    /\ strategy_name' = self.name
    /\ min_files_for_aggregation' = self.min_files_for_aggregation
    /\ path_kind' = kind
    /\ folder' = f
    /\ pause_between_files' = pause
    /\ IF ~IsFolder(kind)
       THEN /\ folder_result' = Escaped([type |-> "ValueError",
                                         msg |-> <<"Papka ne naydena: ", "<folder_path>">>])
            /\ phase' = "done"
            /\ UNCHANGED target_files
       ELSE /\ target_files' = TargetFiles(f)
            /\ IF TargetFiles(f) = <<>>
               THEN /\ folder_result' = Returned(_build_empty_result(self.name))
                    /\ phase' = "done"
               ELSE /\ phase' = "loop"
                    /\ folder_result' = Running
    /\ file_i' = 1
    /\ file_summaries' = <<>>
    /\ failed_files' = <<>>
    /\ events' = <<>>

\* the strategy's summarize_folder, called on the strategy the factory built
SummarizeFolder(f, kind, pause) ==
    /\ phase = "idle"
    /\ StartRun(Strategy(strategy_name, min_files_for_aggregation), f, kind, pause)
    /\ UNCHANGED <<extractor, toplevel, clientside, engine>>

\* one iteration of the loop: the file is extracted, summarized unless its
\* text is blank, recorded, and the pause is taken
ProcessFile(res) ==
    /\ phase = "loop"
    /\ LET position == CurrentFile(target_files, file_i)
           file_path == PathIn(position)
           txt == extract_file(folder[position])
           summary == IF strategy_name = "simple"
                      THEN simple_summarize_single_file(file_path, txt, res)
                      ELSE _summarize_single_file(file_path, txt, res)
       IN  /\ file_summaries' = Append(file_summaries, summary)
           /\ failed_files' = IF summary.status # "success"
                              THEN Append(failed_files, relative_to(file_path))
                              ELSE failed_files
           /\ events' = events
                 \o <<[op |-> "extract_file", file |-> file_path]>>
                 \o (IF Strip(txt) = <<>> THEN <<>>
                     ELSE <<[op |-> "summarize", temperature |-> "0.3", text |-> txt,
                             returned |-> res, file |-> file_path]>>)
                 \o (IF PauseTaken(file_i, Len(target_files), pause_between_files)
                     THEN <<[op |-> "sleep", seconds |-> pause_between_files]>>
                     ELSE <<>>)
    /\ file_i' = file_i + 1
    /\ phase' = IF file_i < Len(target_files) THEN "loop" ELSE "aggregate"
    /\ UNCHANGED <<extractor, toplevel, clientside, strategy, path_kind, folder, pause_between_files,
                   target_files, folder_result, engine>>

\* after the loop: the aggregation (hierarchical only) and _build_result
BuildResult(res) ==
    /\ phase = "aggregate"
    /\ LET aggregate == /\ Aggregates(strategy_name)
                        /\ MeetsMinimum(file_summaries, min_files_for_aggregation)
           overview == IF aggregate
                       THEN _aggregate_summaries(file_summaries, res)
                       ELSE Absent
       IN  /\ events' = events
                 \o (IF aggregate /\ AggregationCalled(file_summaries)
                     THEN <<[op |-> "summarize", temperature |-> "0.4",
                             text |-> aggregation_text(Successful(file_summaries)),
                             returned |-> res]>>
                     ELSE <<>>)
           /\ folder_result' =
                 Returned(IF strategy_name = "simple"
                          THEN simple_build_result(file_summaries, failed_files)
                          ELSE _build_result(strategy_name, file_summaries,
                                             overview, failed_files))
    /\ phase' = "done"
    /\ UNCHANGED <<extractor, toplevel, clientside, strategy, path_kind, folder, pause_between_files,
                   target_files, file_i, file_summaries, failed_files, engine>>

NextFolder ==
    \/ \E f \in Folders, kind \in PathKinds, pause \in Pauses :
          SummarizeFolder(f, kind, pause)
    \/ \E n \in DOMAIN ClientResults : ProcessFile(ClientResults[n])
    \/ \E n \in DOMAIN ClientResults : BuildResult(ClientResults[n])

SpecFolder == InitFolder /\ [][NextFolder]_vars

\* ----------------------------------------------------------------- engine

\* the strategies a caller can hand to the engine
EngineStrategies == {Strategy(name, minimum) : name \in {"hierarchical", "simple"},
                                          minimum \in MinFiles}

\* the folders of the engine runs: at most one file
EngineFolders == {f \in Folders : Len(f) <= 1}

\* faulty variant: the engine keeps calling the strategy of the last run
DelegateToLast(held, last) == last

\* self._strategy at the time of the call
Delegate(held, last) == held

\* SummarizationEngine.summarize_folder: the call goes to self._strategy
EngineSummarizeFolder(f, kind, pause) ==
    /\ phase \in {"idle", "done"}
    /\ StartRun(Delegate(_strategy, Strategy(strategy_name, min_files_for_aggregation)),
                f, kind, pause)
    /\ UNCHANGED <<extractor, toplevel, clientside, engine>>

\* the setter of SummarizationEngine.strategy
SetStrategy(new_strategy) ==
    /\ phase \in {"idle", "done"}
    /\ _strategy' = new_strategy
    /\ UNCHANGED <<extractor, toplevel, clientside, strategy, path_kind, folder, pause_between_files,
                   target_files, file_i, file_summaries, failed_files, phase,
                   folder_result, events, info>>

\* SummarizationEngine.get_strategy_info
GetStrategyInfo ==
    /\ phase \in {"idle", "done"}
    /\ info' = [name |-> Delegate(_strategy,
                                  Strategy(strategy_name, min_files_for_aggregation)).name]
    /\ UNCHANGED <<extractor, toplevel, clientside, strategy, path_kind, folder, pause_between_files,
                   target_files, file_i, file_summaries, failed_files, phase,
                   folder_result, events, _strategy>>

NextEngine ==
    \/ \E f \in EngineFolders, kind \in PathKinds, pause \in Pauses :
          EngineSummarizeFolder(f, kind, pause)
    \/ \E new_strategy \in EngineStrategies : SetStrategy(new_strategy)
    \/ GetStrategyInfo
    \/ \E n \in DOMAIN ClientResults : ProcessFile(ClientResults[n])
    \/ \E n \in DOMAIN ClientResults : BuildResult(ClientResults[n])

SpecEngine == InitFolder /\ [][NextEngine]_vars

\* ---------------------------------------------------------- termination

\* the backend answers a request, with a summary or with a failure
Respond ==
    \/ ReceiveAnswer(<<"o", "k">>)
    \/ \E resp \in Responses \ {"ok"} : ReceiveFailure(resp)

\* the strategy gets the outcome of a per-file call
FileDone == \E n \in DOMAIN ClientResults : ProcessFile(ClientResults[n])

\* the strategy gets the outcome of the aggregation call, if it made one
RunDone == \E n \in DOMAIN ClientResults : BuildResult(ClientResults[n])

\* A behaviour is one call of summarize against any backend, or one folder
\* run whose client calls return any of the outcomes.
NextLive ==
    \/ /\ phase = "idle"
       /\ calls = 0
       /\ \E name \in {None, "fast"} : Summarize(DefaultContextLimit, name)
    \/ SendRequest
    \/ Tick
    \/ Respond
    \/ Backoff
    \/ /\ calls = 0
       /\ \E f \in Folders, kind \in PathKinds, pause \in Pauses :
             SummarizeFolder(f, kind, pause)
    \/ FileDone
    \/ RunDone

\* a step of Respond, by what it does to the position of the thread: nothing
\* but the state of the backend decides whether Respond can happen
Responded == pc = "posting" /\ pc' \in {"idle", "request", "backoff"}

\* a step of FileDone and a step of RunDone, likewise
FileStepped == phase = "loop" /\ file_i' = file_i + 1
RunStepped == phase = "aggregate" /\ phase' = "done"

\* time.sleep returns, session.post returns (timeout=120) or raises, and every
\* call of the client returns to the strategy
SpecLive ==
    /\ Init
    /\ [][NextLive]_vars
    /\ WF_pc(SendRequest)
    /\ WF_pc(Responded)
    /\ WF_pc(Backoff)
    /\ WF_file_i(FileStepped)
    /\ WF_phase(RunStepped)

\* ---------------------------------------------------------------- main

\* the source folders of main: up to two files
MainFolders == {f \in Folders : Len(f) <= 2}

\* what ends a run from outside or from below: Ctrl-C, or an exception that
\* leaves summarize_folder
Aborts == {"KeyboardInterrupt", "OSError"}

\* what save_results does: both files written, the report cannot be opened,
\* the report is written and the JSON file fails
Saves == {"ok", "report_fails", "json_fails"}

\* faulty variant: every abort exits with 1
ExitCodeOne(exc) == 1

\* the except clauses of main: 130 for KeyboardInterrupt, 1 for an Exception
ExitCode(exc) == IF exc = "KeyboardInterrupt" THEN 130 ELSE 1

\* the files save_results leaves behind
Saved(save) ==
    CASE save = "ok" -> {"summary.txt", "summary.json"}
      [] save = "json_fails" -> {"summary.txt"}
      [] OTHER -> {}

\* main up to the call of engine.summarize_folder (lines 118-166): a
\* configuration that does not load and a source that is not a folder exit
\* with 1; an engine that cannot be built exits with 1 from the except clause;
\* otherwise the run starts on the strategy the engine holds
MainRun(config_ok, engine_ok, kind, f, pause) ==
    /\ main_pc = "idle"
    /\ phase = "idle"
    /\ kind # "directory" => f = <<>>
    /\ IF ~config_ok \/ ~IsFolder(kind) \/ ~engine_ok
       THEN /\ main_pc' = "exited"
            /\ exit_code' = 1
            /\ UNCHANGED <<strategy, path_kind, folder, pause_between_files,
                           target_files, file_i, file_summaries, failed_files,
                           phase, folder_result, events>>
       ELSE /\ main_pc' = "summarizing"
            /\ exit_code' = exit_code
            /\ StartRun(Delegate(_strategy,
                                 Strategy(strategy_name, min_files_for_aggregation)),
                        f, kind, pause)
    /\ UNCHANGED <<clientside, engine, extractor, written>>

\* the run is cut short: the exception passes through the strategy, whose
\* locals are lost, and main exits from its except clause
Abort(exc) ==
    /\ main_pc = "summarizing"
    /\ phase \in {"loop", "aggregate"}
    /\ phase' = "aborted"
    /\ folder_result' = Escaped([type |-> exc])
    /\ main_pc' = "exited"
    /\ exit_code' = ExitCode(exc)
    /\ UNCHANGED <<clientside, engine, extractor, written, strategy, path_kind,
                   folder, pause_between_files, target_files, file_i,
                   file_summaries, failed_files, events>>

\* summarize_folder has returned (lines 167-194): the result is printed and
\* save_results writes the report, then the JSON file
MainFinish(save) ==
    /\ main_pc = "summarizing"
    /\ phase = "done"
    /\ written' = Saved(save)
    /\ exit_code' = IF save = "ok" THEN 0 ELSE ExitCode("OSError")
    /\ main_pc' = "exited"
    /\ UNCHANGED <<clientside, engine, extractor, strategy, path_kind,
                   folder, pause_between_files, target_files, file_i,
                   file_summaries, failed_files, phase, folder_result, events>>

NextMain ==
    \/ \E config_ok, engine_ok \in BOOLEAN, kind \in PathKinds,
          f \in MainFolders, pause \in Pauses :
          MainRun(config_ok, engine_ok, kind, f, pause)
    \/ \E n \in DOMAIN ClientResults : ProcessFile(ClientResults[n])
    \/ \E n \in DOMAIN ClientResults : BuildResult(ClientResults[n])
    \/ \E exc \in Aborts : Abort(exc)
    \/ \E save \in Saves : MainFinish(save)

SpecMain == InitFolder /\ [][NextMain]_vars

\* ----------------------------------------------------------- the extractor

\* calls to extract_file in one behaviour
MaxExtracts == 2
\* files of a folder given to extract_folder
MaxDocs == 2

\* suffixes of the paths given to the extractor: the supported ones, two in
\* upper case, an unsupported one, none
Suffixes ==
    supported_extensions \cup {".PDF", ".JPG", ".txt", ""}

\* what a file holds: one page of text, a page without text, a blank page,
\* nothing a backend can open, a page of text before a page the backend
\* fails on, a page the backend fails on
Contents ==
    {[opens |-> TRUE, pages |-> <<Page(<<"a">>)>>],
     [opens |-> TRUE, pages |-> <<Page(<<>>)>>],
     [opens |-> TRUE, pages |-> <<Page(<<" ">>)>>],
     [opens |-> FALSE, pages |-> <<>>],
     [opens |-> TRUE, pages |-> <<Page(<<"a">>), BadPage>>],
     [opens |-> TRUE, pages |-> <<BadPage>>]}

\* the files that exist: every suffix with a page of text, and a PDF, an
\* image and a text file with each of the contents
Stored ==
    {File("yes", suffix, TRUE, <<Page(<<"a">>)>>) : suffix \in Suffixes}
    \cup {File("yes", suffix, c.opens, c.pages) :
              suffix \in {".pdf", ".PDF", ".jpg", ".txt"}, c \in Contents}

\* the paths given to extract_file: a stored file, a missing file, a path
\* os.stat fails on
Documents ==
    Stored \cup {File("no", ".pdf", FALSE, <<>>), File("raises", ".pdf", FALSE, <<>>)}

\* the files of the folders given to extract_folder: the files of the folder
\* runs, a blank image, an image the OCR fails on, a PDF that fails after its
\* first page, a PDF that cannot be opened
FolderDocs ==
    FileKinds \cup
    {File("yes", ".png", TRUE, <<Page(<<" ">>)>>),
     File("yes", ".jpeg", TRUE, <<BadPage>>),
     File("yes", ".PDF", TRUE, <<Page(<<"a">>), BadPage>>),
     File("yes", ".pdf", FALSE, <<>>)}

\* the folders given to extract_folder: up to MaxDocs files
DocFolders == UNION {[1..n -> FolderDocs] : n \in 0..MaxDocs}

\* faulty variant: a file is read once, a later call finds nothing
ExtractedOnce(f, earlier) ==
    IF f.exists = "raises" THEN Escaped([type |-> "OSError"])
    ELSE IF \E k \in DOMAIN earlier : earlier[k].file = f THEN Returned(<<>>)
    ELSE Returned(extract_file(f))

\* One call of extract_file after the calls made earlier on the same
\* extractor: path.exists() stands before the try block, so what it raises
\* leaves the method; nothing of the earlier calls is read.
Extracted(f, earlier) ==
    IF f.exists = "raises" THEN Escaped([type |-> "OSError"])
    ELSE Returned(extract_file(f))

\* faulty variant: every text counts as extracted
HasTextAlways(txt) == TRUE

\* text.strip() as a condition
HasText(txt) == Strip(txt) # <<>>

\* extract_folder: every file of the folder is extracted, supported or not,
\* and is filed under content or under failed
extract_folder(kind, f) ==
    IF kind # "directory"
    THEN Escaped([type |-> "ValueError",
                  msg |-> <<"Papka ne naydena: ", "<folder_path>">>])
    ELSE LET texts == [k \in DOMAIN f |-> extract_file(f[k])]
             kept == {k \in DOMAIN f : HasText(texts[k])}
         IN  Returned(
                [total_files |-> Len(f),
                 processed |-> Cardinality({relative_to(PathIn(k)) : k \in kept}),
                 failed |-> [n \in 1..(Len(f) - Cardinality(kept)) |->
                               relative_to(PathIn(
                                   SelectSeq([k \in 1..Len(f) |-> k],
                                             LAMBDA k : k \notin kept)[n]))],
                 content |-> [q \in {relative_to(PathIn(k)) : k \in kept} |->
                                texts[Name(q)]]])

\* a call of extract_file: only the history of calls changes
ExtractFile(f) ==
    /\ extraction = Running
    /\ Len(extractions) < MaxExtracts
    /\ extractions' = Append(extractions,
                             [file |-> f,
                              handlers |-> IF Dispatch(f) = None THEN <<>>
                                           ELSE <<Dispatch(f)>>,
                              outcome |-> Extracted(f, extractions)])
    /\ UNCHANGED <<clientside, strategy, path_kind, folder, pause_between_files,
                   target_files, file_i, file_summaries, failed_files, phase,
                   folder_result, events, engine, extraction, toplevel>>

\* a call of extract_folder
ExtractFolder(kind, f) ==
    /\ extraction = Running
    /\ extractions = <<>>
    /\ kind # "directory" => f = <<>>
    /\ path_kind' = kind
    /\ folder' = f
    /\ extraction' = extract_folder(kind, f)
    /\ UNCHANGED <<clientside, strategy, pause_between_files,
                   target_files, file_i, file_summaries, failed_files, phase,
                   folder_result, events, engine, extractions, toplevel>>

NextExtract ==
    \/ \E f \in Documents : ExtractFile(f)
    \/ \E kind \in PathKinds, f \in DocFolders : ExtractFolder(kind, f)

SpecExtract == Init /\ [][NextExtract]_vars

\* ------------------------------------------------------------------ claims

\* the latest finished call returned a value
HasReturned == pc = "idle" /\ outcome.kind = "returned"

\* fragments msg occur, in order and adjacent, in the text err
Contains(err, msg) ==
    \E k \in 1..Len(err) :
        k + Len(msg) - 1 <= Len(err) /\ SubSeq(err, k, k + Len(msg) - 1) = msg

\* C1: within a call the candidates are requested in list order: the first
\* request goes to the first candidate, each later request goes to the same or
\* to the next candidate, and only after every earlier request has failed; an
\* answer ends the call and the answering model is reported as model_used.
C1_FallbackOrder ==
    /\ \A k \in 1..Len(requests) :
          /\ requests[k].model \in 0..(Len(models_to_try) - 1)
          /\ k = 1 => requests[k].model = 0 /\ requests[k].attempt = 1
          /\ k > 1 =>
                \/ /\ requests[k].model = requests[k - 1].model
                   /\ requests[k].attempt = requests[k - 1].attempt + 1
                \/ /\ requests[k].model = requests[k - 1].model + 1
                   /\ requests[k].attempt = 1
          /\ \A j \in 1..(k - 1) : requests[j].result = "failure"
          /\ requests[k].result = "answer" =>
                /\ k = Len(requests)
                /\ HasReturned
                /\ outcome.value.success
                /\ outcome.value.model_used = models_to_try[requests[k].model + 1]
    /\ (HasReturned /\ outcome.value.success) =>
          /\ requests # <<>>
          /\ requests[Len(requests)].result = "answer"

\* C1 witness: the second candidate answered after the first one failed twice
C1_Witness ==
    /\ HasReturned
    /\ outcome.value.success
    /\ outcome.value.model_used = Gemma2
    /\ Len(requests) = 3

OutcomeKeys == {"summary", "model_used", "success", "fallback_used", "metadata", "error"}

\* C2: no exception leaves summarize: whatever the backend did, a finished
\* call has returned a mapping with the six keys, whose error is None on
\* success and a message on failure.
C2_NeverRaises ==
    /\ outcome.kind # "raised"
    /\ (pc = "idle" /\ calls > 0) =>
          /\ outcome.kind = "returned"
          /\ DOMAIN outcome.value = OutcomeKeys
          /\ IF outcome.value.success
             THEN outcome.value.error = Absent
             ELSE /\ outcome.value.error # <<>>
                  /\ outcome.value.error[1] = ErrorPrefix
                  /\ Len(outcome.value.error) > 1

\* C2 witness: a call ended on a response body without choices
C2_Witness ==
    /\ HasReturned
    /\ ~outcome.value.success
    /\ last_response = "no_choices"

\* C3: when every candidate failed, the outcome has success false, summary
\* None, the whole candidate list as attempted_models, and an error text that
\* contains the message of the exception the last failed request raised.
C3_LastFailureMessage ==
    (HasReturned /\ ~outcome.value.success) =>
        /\ outcome.value.summary = Absent
        /\ outcome.value.metadata.attempted_models = models_to_try
        /\ Contains(outcome.value.error, Raised(last_response).msg)

\* a request is posted by this step
Posts == pc = "request" /\ pc' = "posting"

\* C4: every outbound request of the client, whatever its model, attempt or
\* call, starts at least request_delay after the start recorded for the
\* request before it (the one last_request_time of the instance).
C4_RequestPacing ==
    [][(Posts /\ last_request_time # 0) =>
          /\ last_request_time' = now'
          /\ last_request_time' >= last_request_time + request_delay]_vars

\* C4 witness: a request to the second candidate is in flight; it was posted
\* after the first candidate's only request failed, and the thread had to wait
C4_Witness ==
    /\ pc = "posting"
    /\ Len(requests) = 2
    /\ requests[1].model = 0
    /\ requests[2].model = 1
    /\ now > call_start

\* C5 as stated: a summarize call starts at least request_delay after the
\* start of the summarize call before it.
C5_CallStartGap ==
    [][(pc = "idle" /\ pc' = "request" /\ calls >= 1) =>
          call_start' - call_start >= request_delay]_vars

\* C5 as amended: the first request of a summarize call starts at least
\* request_delay after the first request of the summarize call before it.
C5_FirstRequestGap ==
    [][(Posts /\ requests = <<>> /\ calls >= 2) =>
          first_request' - first_request >= request_delay]_vars

\* C5 witness: the second call had to wait before its first request
C5_Witness ==
    /\ calls = 2
    /\ Len(requests) = 1
    /\ pc = "posting"
    /\ first_request > call_start

\* the client is about to post again to the model whose request just failed
RetryingSameModel ==
    \/ pc = "backoff"
    \/ pc = "request" /\ attempt_number > 1

\* C6: after HTTP 402 for a model no further request goes to that model in the
\* call: the client is never about to retry it.
C6_NoRetryAfter402 == last_response = "http402" => ~RetryingSameModel

\* C7: after a permanent failure (HTTP 400 invalid model ID, or another status
\* >= 400 that is neither 429 nor 402) the model gets no second request.
C7_NoRetryAfterPermanent ==
    last_response \in {"http400_invalid_model", "http_error"} => ~RetryingSameModel

\* C8: after HTTP 429 or a timeout the same model is requested again once the
\* backoff wait is over; when that was the last attempt, the next candidate is
\* tried and the call goes on, and only after the last candidate does the
\* call return its failure outcome.
C8_TransientRetry ==
    last_response \in {"http429", "timeout"} =>
        LET r == requests[Len(requests)]
        IN  /\ r.result = "failure"
            /\ r.attempt < StopAfterAttempt =>
                  /\ i = r.model
                  /\ outcome = Running
                  /\ \/ pc = "backoff" /\ attempt_number = r.attempt
                     \/ /\ pc = "request"
                        /\ attempt_number = r.attempt + 1
                        /\ now >= last_request_time + WaitMin
            /\ r.attempt >= StopAfterAttempt =>
                  IF r.model < Len(models_to_try) - 1
                  THEN /\ pc = "request"
                       /\ i = r.model + 1
                       /\ attempt_number = 1
                       /\ outcome = Running
                  ELSE /\ HasReturned
                       /\ ~outcome.value.success

\* C8 witness: the first candidate used up its attempts on HTTP 429 and the
\* second candidate is about to be requested
C8_Witness ==
    /\ last_response = "http429"
    /\ pc = "request"
    /\ i = 1
    /\ Len(requests) = 2
    /\ requests[2].attempt = 2

\* C9: in a successful outcome fallback_used is true exactly when the winner
\* is not the first candidate, and metadata repeats the flag.
C9_FallbackFlag ==
    (HasReturned /\ outcome.value.success) =>
        /\ outcome.value.fallback_used = (outcome.value.model_used # models_to_try[1])
        /\ outcome.value.metadata.fallback_used = outcome.value.fallback_used

\* C9 witness: the first candidate answered, at its second attempt
C9_Witness ==
    /\ HasReturned
    /\ outcome.value.success
    /\ outcome.value.model_used = models_to_try[1]
    /\ Len(models_to_try) = 2
    /\ Len(requests) = 2

\* the budget of the running call
Budget == ContextLimit(models_to_try[1])

\* C10 as stated: when template plus input text is longer than the first
\* candidate's budget, the text is truncated and truncated is reported.
C10_PromptOverBudget ==
    (calls > 0 /\ Length(_prepare_prompt(Seg("text", 1, text_len))) > Budget) =>
        /\ truncated
        /\ HasReturned => outcome.value.metadata.truncated

\* C10 as amended: when the input text alone is longer than the first
\* candidate's budget, the text in the prompt is a shortened one (head, marker
\* and tail) and the outcome reports truncated.
C10_TextOverBudget ==
    (calls > 0 /\ text_len > Budget) =>
        /\ truncated
        /\ text # Seg("text", 1, text_len)
        /\ Length(text) < text_len
        /\ Marker[1] \in {text[k] : k \in 1..Len(text)}
        /\ HasReturned => outcome.value.metadata.truncated

\* C10 witness: a text one character over the budget, call finished
C10_Witness ==
    /\ HasReturned
    /\ text_len = Budget + 1
    /\ outcome.value.metadata.truncated

\* C11: for an input text longer than the budget L of the first candidate,
\* the prompt sent to the backend is at most L characters long.
C11_PromptWithinBudget ==
    (pc = "posting" /\ text_len > Budget) => Length(prompt) <= Budget

\* the input text of the running call, whole
WholeText == Seg("text", 1, text_len)

\* C12: a truncated text is exactly the first min(15000, floor(0.6 L))
\* characters of the input, the omission marker, and the last L - head - 100
\* characters of the input.
C12_HeadMarkerTail ==
    (calls > 0 /\ truncated) =>
        LET head == IF 15000 < (6 * Budget) \div 10 THEN 15000 ELSE (6 * Budget) \div 10
            tail == Budget - head - 100
        IN  /\ head > 0 /\ tail > 0 /\ tail <= text_len
            /\ text = <<[src |-> "text", lo |-> 1, hi |-> head],
                        [src |-> "marker", lo |-> 1, hi |-> MarkerLen],
                        [src |-> "text", lo |-> text_len - tail + 1, hi |-> text_len]>>
            /\ prompt = _prepare_prompt(text)

\* C12 witness: a truncated text of the longest length is in a posted prompt
C12_Witness ==
    /\ pc = "posting"
    /\ truncated
    /\ text_len > Budget + 1

\* C13: a text no longer than the budget goes into the prompt unchanged and
\* the outcome reports truncated false.
C13_WithinBudgetUnchanged ==
    (calls > 0 /\ text_len <= Budget) =>
        /\ ~truncated
        /\ text = WholeText
        /\ prompt = Seg("template_head", 1, TemplateHeadLen) \o WholeText
                    \o Seg("template_tail", 1, TemplateTailLen)
        /\ HasReturned => ~outcome.value.metadata.truncated

\* C13 witness: a text of exactly the budget, call finished
C13_Witness ==
    /\ HasReturned
    /\ text_len = Budget
    /\ ~outcome.value.metadata.truncated

\* C14: every outcome, success or failure, has metadata.truncated, and it is
\* true exactly when the text in the prompt is not the whole input text.
C14_TruncatedFlag ==
    HasReturned =>
        /\ "truncated" \in DOMAIN outcome.value.metadata
        /\ outcome.value.metadata.truncated = (text # WholeText)

\* C14 witness: a failure outcome of a call that truncated its text
C14_Witness ==
    /\ HasReturned
    /\ ~outcome.value.success
    /\ text # WholeText

StartsWith(s, label) == Len(s) >= Len(label) /\ SubSeq(s, 1, Len(label)) = label

\* the answer with surrounding whitespace and one leading label removed
WithoutLabel(answer) ==
    LET a == Strip(answer)
    IN  IF StartsWith(a, LabelRu) THEN Strip(SubSeq(a, Len(LabelRu) + 1, Len(a)))
        ELSE IF StartsWith(a, LabelEn) THEN Strip(SubSeq(a, Len(LabelEn) + 1, Len(a)))
        ELSE a

\* C15: the summary of a successful call is the answer without surrounding
\* whitespace and without a leading label, nothing else removed.
C15_OnlyLabelRemoved ==
    (HasReturned /\ outcome.value.success) =>
        outcome.value.summary = WithoutLabel(last_answer)

\* ---------------------------------------------------- claims on folder runs

RunReturned == phase = "done" /\ folder_result.kind = "returned"

\* the calls to client.summarize of the run, and those of the aggregation
ClientCalls == SelectSeq(events, LAMBDA e : e.op = "summarize")
AggregationCalls ==
    SelectSeq(events, LAMBDA e : e.op = "summarize" /\ e.temperature = "0.4")

\* number of file summaries with status success
Successes ==
    Cardinality({n \in DOMAIN file_summaries : file_summaries[n].status = "success"})

\* number of target files whose extracted text is not empty
NonEmptyFiles ==
    Cardinality({n \in DOMAIN target_files :
                    extract_file(folder[target_files[n]]) # <<>>})

HierarchicalRun ==
    RunReturned /\ strategy_name = "hierarchical" /\ target_files # <<>>

\* C16: a hierarchical run over at least one target file with at least
\* min_files_for_aggregation successes makes exactly one more client call,
\* the aggregation call, and its overview is the aggregation summary or a
\* fallback failure message, never None.
C16_AggregationAtMinimum ==
    (HierarchicalRun /\ Successes >= min_files_for_aggregation) =>
        /\ Len(AggregationCalls) = 1
        /\ Len(ClientCalls) = NonEmptyFiles + 1
        /\ events[Len(events)].op = "summarize"
        /\ events[Len(events)].temperature = "0.4"
        /\ folder_result.value.overview # <<None>>
        /\ LET answer == AggregationCalls[1].returned
           IN  IF answer.success /\ answer.summary # <<>>
               THEN folder_result.value.overview = answer.summary
               ELSE folder_result.value.overview[1] = AggregationFailedPrefix

\* C16 witness: exactly the minimum of two successes, overview summarized
C16_Witness ==
    /\ HierarchicalRun
    /\ min_files_for_aggregation = 2
    /\ Successes = 2
    /\ Len(file_summaries) = 3
    /\ folder_result.value.overview = <<"o", "k">>

\* C17: a hierarchical run over at least one target file with fewer
\* successes than min_files_for_aggregation makes no aggregation call and
\* returns overview None.
C17_NoAggregationBelowMinimum ==
    (HierarchicalRun /\ Successes < min_files_for_aggregation) =>
        /\ AggregationCalls = <<>>
        /\ Len(ClientCalls) = NonEmptyFiles
        /\ folder_result.value.overview = <<None>>

\* C17 witness: one success with a minimum of two
C17_Witness ==
    /\ HierarchicalRun
    /\ min_files_for_aggregation = 2
    /\ Successes = 1
    /\ Len(file_summaries) > 1

\* the aggregation call was made and the client reported failure for it
AggregationFailedRun ==
    /\ RunReturned
    /\ AggregationCalls # <<>>
    /\ ~AggregationCalls[1].returned.success

\* C18: when the client reports failure for the aggregation call, the
\* overview is the fallback message with the client's error text in it, and
\* the file summaries and the processed and failed counts are those of the
\* per-file loop.
C18_AggregationFailureMessage ==
    AggregationFailedRun =>
        /\ folder_result.value.overview[1] = AggregationFailedPrefix
        /\ Contains(folder_result.value.overview, AggregationCalls[1].returned.error)
        /\ folder_result.value.file_summaries = file_summaries
        /\ folder_result.value.metadata.total_files = Len(target_files)
        /\ folder_result.value.metadata.processed = Successes
        /\ folder_result.value.metadata.failed = failed_files
        /\ Len(failed_files) = Len(target_files) - Successes

\* C18 witness: a failed aggregation after two successes and one failed file
C18_Witness ==
    /\ AggregationFailedRun
    /\ Successes = 2
    /\ Len(failed_files) = 1

\* C19: a simple run returns overview None and makes no aggregation call:
\* its client calls are one per target file with a non-empty extracted text.
C19_SimpleNeverAggregates ==
    strategy_name = "simple" =>
        /\ AggregationCalls = <<>>
        /\ RunReturned =>
              /\ folder_result.value.overview = <<None>>
              /\ Len(ClientCalls) = NonEmptyFiles

\* C19 witness: a simple run with enough successes for an aggregation and a
\* blank file
C19_Witness ==
    /\ RunReturned
    /\ strategy_name = "simple"
    /\ Successes >= min_files_for_aggregation
    /\ NonEmptyFiles < Len(target_files)

\* the folder exists and none of its files has a supported extension
NoSupportedFile ==
    /\ RunReturned
    /\ \A k \in DOMAIN folder : folder[k].suffix \notin {".pdf", ".PDF", ".jpg", ".JPG"}

\* C20: for a folder without a file of a supported extension both strategies
\* return zero counts and empty lists without a call to extract_file or to
\* the client; the hierarchical overview is the no-documents message, the
\* simple overview is None.
C20_EmptyFolderResult ==
    NoSupportedFile =>
        /\ folder_result.value.metadata.total_files = 0
        /\ folder_result.value.metadata.processed = 0
        /\ folder_result.value.metadata.failed = <<>>
        /\ folder_result.value.file_summaries = <<>>
        /\ events = <<>>
        /\ strategy_name = "hierarchical" =>
              folder_result.value.overview =
                 <<"V papke ne naydeno podderzhivaemykh dokumentov (.pdf, .jpg, .webp i dr.)">>
        /\ strategy_name = "simple" => folder_result.value.overview = <<None>>

\* C20 witness: a hierarchical run over a folder of unsupported files only
C20_Witness ==
    /\ NoSupportedFile
    /\ Len(folder) = 2
    /\ strategy_name = "hierarchical"

\* the file summaries of the returned result whose status is not success
NotSucceeded ==
    SelectSeq(folder_result.value.file_summaries, LAMBDA s : s.status # "success")

\* C21: in every returned result processed is the number of file summaries
\* with status success, total_files is the number of file summaries, and
\* failed lists, in processing order, the folder-relative paths of exactly
\* the files whose status is not success.
C21_ResultCounts ==
    RunReturned =>
        LET value == folder_result.value
        IN  /\ value.metadata.processed =
                  Cardinality({n \in DOMAIN value.file_summaries :
                                  value.file_summaries[n].status = "success"})
            /\ value.metadata.total_files = Len(value.file_summaries)
            /\ value.metadata.failed =
                  [n \in 1..Len(NotSucceeded) |->
                      SubSeq(NotSucceeded[n].file, 2, Len(NotSucceeded[n].file))]
            /\ value.metadata.processed + Len(value.metadata.failed)
                  = value.metadata.total_files

\* C21 witness: a result with one success between an empty and a failed file
C21_Witness ==
    /\ RunReturned
    /\ Len(file_summaries) = 3
    /\ file_summaries[1].status = "empty"
    /\ file_summaries[2].status = "success"
    /\ file_summaries[3].status = "error"
    /\ folder_result.value.metadata.failed = <<<<1>>, <<3>>>>

\* the client call made for the file of a file summary
CallFor(s) ==
    SelectSeq(events, LAMBDA e : /\ e.op = "summarize"
                                 /\ e.temperature = "0.3"
                                 /\ e.file = s.file)

\* the error of a file summary is the error of the client's outcome for that
\* file, and that is None in an outcome that says success
ErrorIsNone(s) ==
    /\ Len(CallFor(s)) = 1
    /\ CallFor(s)[1].returned.success

\* C22: every file summary has status success, empty or error; summary is
\* present exactly with status success, model_used likewise, and an error
\* description other than None exactly with status error.
C22_FileSummaryShape ==
    \A n \in DOMAIN file_summaries :
        LET s == file_summaries[n]
        IN  /\ s.status \in {"success", "empty", "error"}
            /\ (s.status = "success") <=> ("model_used" \in DOMAIN s)
            /\ s.status = "success" => s.summary # <<>>
            /\ s.status # "success" => s.summary = Absent
            /\ s.status = "error" => ("error" \in DOMAIN s /\ ~ErrorIsNone(s))
            /\ s.status # "error" => "error" \notin DOMAIN s

\* C23 as stated: a returned overview is present only if the strategy is the
\* hierarchical one and the number of successful file summaries reaches
\* min_files_for_aggregation.
C23_OverviewOnlyAtMinimum ==
    (RunReturned /\ folder_result.value.overview # <<None>>) =>
        /\ strategy_name = "hierarchical"
        /\ Successes >= min_files_for_aggregation

\* C23 amended: a returned overview is present only if the strategy is the
\* hierarchical one and either the number of successful file summaries
\* reaches min_files_for_aggregation or no target file was found, in which
\* case the overview is the no-documents message.
C23_OverviewAtMinimumOrEmpty ==
    (RunReturned /\ folder_result.value.overview # <<None>>) =>
        /\ strategy_name = "hierarchical"
        /\ \/ /\ target_files # <<>>
              /\ Successes >= min_files_for_aggregation
           \/ /\ target_files = <<>>
              /\ folder_result.value.file_summaries = <<>>
              /\ folder_result.value.overview =
                    <<"V papke ne naydeno podderzhivaemykh dokumentov (.pdf, .jpg, .webp i dr.)">>

\* C23 witness: the overview of a hierarchical run that found no target file
C23_Witness ==
    /\ RunReturned
    /\ strategy_name = "hierarchical"
    /\ target_files = <<>>
    /\ folder_result.value.overview # <<None>>
    /\ Successes < min_files_for_aggregation

\* the calls to extract_file of the run
ExtractCalls == SelectSeq(events, LAMBDA e : e.op = "extract_file")

\* C24: the target files are extracted and summarized one at a time in
\* discovery order; file_summaries has one entry per target file in that
\* order, no file twice; the aggregation call comes after the last file.
C24_DiscoveryOrder ==
    /\ \A n \in DOMAIN target_files :
          n > 1 => target_files[n - 1] < target_files[n]
    /\ Len(ExtractCalls) = Len(file_summaries)
    /\ Len(file_summaries) <= Len(target_files)
    /\ \A n \in DOMAIN file_summaries :
          /\ file_summaries[n].file = <<0, target_files[n]>>
          /\ ExtractCalls[n].file = <<0, target_files[n]>>
          /\ \A k \in DOMAIN file_summaries :
                k # n => file_summaries[k].file # file_summaries[n].file
    /\ \A j \in DOMAIN events :
          events[j].op = "summarize" =>
              IF events[j].temperature = "0.3"
              THEN /\ j > 1
                   /\ events[j - 1].op = "extract_file"
                   /\ events[j - 1].file = events[j].file
              ELSE /\ j = Len(events)
                   /\ Len(ExtractCalls) = Len(target_files)
                   /\ phase = "done"
    /\ (RunReturned /\ target_files # <<>>) =>
          /\ Len(file_summaries) = Len(target_files)
          /\ folder_result.value.file_summaries = file_summaries

\* C24 witness: three files summarized, then the aggregation call
C24_Witness ==
    /\ RunReturned
    /\ Len(target_files) = 3
    /\ Len(ClientCalls) = 4
    /\ events[Len(events)].temperature = "0.4"

\* the client reported the failure of every candidate model for the file
AllModelsFailedFor(s) ==
    /\ CallFor(s) # <<>>
    /\ ~CallFor(s)[1].returned.success

\* C25: a file for which every candidate model fails gets status error with
\* the client's error message, and the run goes on: the loop keeps its place
\* and a run over an existing folder ends with a returned result that has an
\* entry for every target file.
C25_FailureDoesNotAbort ==
    /\ \A n \in DOMAIN file_summaries :
          AllModelsFailedFor(file_summaries[n]) =>
              /\ file_summaries[n].status = "error"
              /\ file_summaries[n].error = CallFor(file_summaries[n])[1].returned.error
              /\ Contains(file_summaries[n].error, <<ErrorPrefix>>)
    /\ phase = "loop" =>
          /\ folder_result.kind = "running"
          /\ file_i = Len(file_summaries) + 1
          /\ file_i <= Len(target_files)
    /\ phase = "aggregate" => Len(file_summaries) = Len(target_files)
    /\ (phase = "done" /\ path_kind = "directory") =>
          /\ folder_result.kind = "returned"
          /\ Len(folder_result.value.file_summaries) = Len(target_files)

\* C25 witness: a success after a file for which every model failed
C25_Witness ==
    /\ RunReturned
    /\ Len(file_summaries) = 3
    /\ AllModelsFailedFor(file_summaries[1])
    /\ file_summaries[2].status = "empty"
    /\ file_summaries[3].status = "success"

ExtractedFor(s) == extract_file(folder[s.file[Len(s.file)]])

\* C27: a file whose extracted text is blank gets status empty with both
\* lengths zero and no client call; a file with text gets exactly one client
\* call, status success for an outcome that says success and status error
\* for any other outcome.
C27_PerFileMapping ==
    \A n \in DOMAIN file_summaries :
        LET s == file_summaries[n]
        IN  IF Strip(ExtractedFor(s)) = <<>>
            THEN /\ s.status = "empty"
                 /\ s.original_length = 0
                 /\ s.summary_length = 0
                 /\ CallFor(s) = <<>>
            ELSE /\ Len(CallFor(s)) = 1
                 /\ CallFor(s)[1].returned.success => s.status = "success"
                 /\ ~CallFor(s)[1].returned.success => s.status = "error"

\* the pauses of the run
SleepCalls == SelectSeq(events, LAMBDA e : e.op = "sleep")

\* C28: with pause_between_files > 0 a run over n target files pauses after
\* each of the first n - 1 files and not after the last, so never right
\* before the aggregation call; with pause_between_files <= 0 it never pauses.
C28_PauseBetweenFiles ==
    /\ pause_between_files <= 0 => SleepCalls = <<>>
    /\ pause_between_files > 0 =>
          /\ Len(SleepCalls) =
                IF Len(ExtractCalls) = Len(target_files)
                THEN Len(target_files) - (IF target_files = <<>> THEN 0 ELSE 1)
                ELSE Len(ExtractCalls)
          /\ \A j \in DOMAIN events :
                events[j].op = "sleep" =>
                    /\ events[j].seconds = pause_between_files
                    /\ j > 1
                    /\ events[j - 1].op \in {"extract_file", "summarize"}
                    /\ j < Len(events) => events[j + 1].op = "extract_file"
                    /\ j = Len(events) => phase = "loop"
    /\ (RunReturned /\ target_files # <<>> /\ pause_between_files > 0) =>
          Len(SleepCalls) = Len(target_files) - 1

\* C28 witness: two pauses in a hierarchical run over three files that ends
\* with the aggregation call
C28_Witness ==
    /\ RunReturned
    /\ pause_between_files > 0
    /\ Len(target_files) = 3
    /\ Len(SleepCalls) = 2
    /\ AggregationCalls # <<>>

\* the client's outcome for the file of a file summary (any outcome for a
\* blank file, for which the client is not called)
OutcomeFor(s) ==
    IF CallFor(s) = <<>> THEN ClientResults[1] ELSE CallFor(s)[1].returned

\* C29: for the same folder, extractor results and per-file client outcomes
\* the two strategies give the same file summaries and the same total_files,
\* processed and failed values.
C29_SamePerFileResults ==
    /\ \A n \in DOMAIN file_summaries :
          LET s == file_summaries[n]
          IN  /\ s = _summarize_single_file(s.file, ExtractedFor(s), OutcomeFor(s))
              /\ s = simple_summarize_single_file(s.file, ExtractedFor(s), OutcomeFor(s))
    /\ (RunReturned /\ target_files # <<>>) =>
          LET h == _build_result("hierarchical", file_summaries, <<None>>, failed_files)
              g == simple_build_result(file_summaries, failed_files)
              value == folder_result.value
          IN  /\ h.file_summaries = g.file_summaries
              /\ h.metadata.total_files = g.metadata.total_files
              /\ h.metadata.processed = g.metadata.processed
              /\ h.metadata.failed = g.metadata.failed
              /\ value.file_summaries = g.file_summaries
              /\ value.metadata.total_files = g.metadata.total_files
              /\ value.metadata.processed = g.metadata.processed
              /\ value.metadata.failed = g.metadata.failed
    /\ (RunReturned /\ target_files = <<>>) =>
          LET h == _build_empty_result("hierarchical")
              g == _build_empty_result("simple")
          IN  /\ h.file_summaries = g.file_summaries
              /\ h.metadata.total_files = g.metadata.total_files
              /\ h.metadata.processed = g.metadata.processed
              /\ h.metadata.failed = g.metadata.failed

\* C29 witness: a simple run with a success, a failed and an empty file
C29_Witness ==
    /\ RunReturned
    /\ strategy_name = "simple"
    /\ Len(file_summaries) = 3
    /\ file_summaries[1].status = "success"
    /\ file_summaries[2].status = "error"
    /\ file_summaries[3].status = "empty"

\* ------------------------------------------------------ claims on the engine

\* the strategy whose summarize_folder is running or ran last
RunningStrategy == Strategy(strategy_name, min_files_for_aggregation)

\* C30: a call to the engine's summarize_folder runs the strategy the engine
\* holds at that time and returns that strategy's result, and no run and no
\* get_strategy_info changes the held strategy; after the setter every later
\* run and every later get_strategy_info uses the strategy that was set.
C30_EngineDelegates ==
    [][/\ (phase \in {"idle", "done"} /\ phase' = "loop") =>
             /\ RunningStrategy' = _strategy
             /\ _strategy' = _strategy
       /\ RunningStrategy' # RunningStrategy => RunningStrategy' = _strategy
       /\ (phase \in {"loop", "aggregate"}) =>
             /\ _strategy' = _strategy
             /\ RunningStrategy' = _strategy
       /\ (phase \in {"loop", "aggregate"} /\ phase' = "done") =>
             /\ folder_result'.kind = "returned"
             /\ folder_result'.value.metadata.strategy = _strategy.name
       /\ (phase' = "done" /\ events' = <<>> /\ path_kind' = "directory"
           /\ (phase = "idle" \/ strategy_name' # strategy_name)) =>
             /\ folder_result'.kind = "returned"
             /\ folder_result'.value.metadata.strategy = _strategy.name
       /\ info' # info =>
             /\ info'.name = _strategy.name
             /\ _strategy' = _strategy
       /\ _strategy' # _strategy =>
             /\ phase \in {"idle", "done"}
             /\ UNCHANGED <<strategy, phase, folder, file_summaries, events, info>>
      ]_vars

\* C30 witness: after a hierarchical run the strategy was replaced by the
\* simple one, get_strategy_info named it, and the next run is a simple one
C30_Witness ==
    /\ RunReturned
    /\ events # <<>>
    /\ strategy_name = "simple"
    /\ _strategy.name = "hierarchical"
    /\ info.name = "simple"

\* the suffixes extract_file sends to the PDF handler and to the OCR handler
PdfSuffixes == {".pdf", ".PDF"}
ImageSuffixes == {".jpg", ".jpeg", ".webp", ".png", ".bmp", ".tiff", ".JPG"}

\* the backend of the file's handler raises while the file is read
BackendRaises(f) ==
    \/ /\ f.suffix \in PdfSuffixes
       /\ ~f.opens \/ \E k \in DOMAIN f.pages : f.pages[k].raises
    \/ /\ f.suffix \in ImageSuffixes
       /\ ~f.opens \/ f.pages[1].raises

\* C31: extract_file never raises, whatever the path: every call returns a
\* string, and a missing file, a file with an unsupported suffix and a file
\* whose PDF or OCR backend raises each give the empty string.
C31_ExtractNeverRaises ==
    \A k \in DOMAIN extractions :
        LET call == extractions[k]
        IN  /\ call.outcome.kind = "returned"
            /\ (\/ call.file.exists = "no"
                \/ call.file.suffix \notin PdfSuffixes \cup ImageSuffixes
                \/ BackendRaises(call.file))
               => call.outcome.value = <<>>

\* C32: extract_file dispatches on the lower-cased suffix: a ".pdf" file goes
\* to the PDF handler only, a file with an image suffix to the OCR handler
\* only, and a file with any other suffix gives "" and reaches neither.
C32_DispatchOnLoweredSuffix ==
    \A k \in DOMAIN extractions :
        LET call == extractions[k]
        IN  call.file.exists = "yes" =>
               /\ call.file.suffix \in PdfSuffixes
                     => call.handlers = <<"_extract_pdf">>
               /\ call.file.suffix \in ImageSuffixes
                     => call.handlers = <<"_extract_image">>
               /\ call.file.suffix \notin PdfSuffixes \cup ImageSuffixes
                     => /\ call.handlers = <<>>
                        /\ call.outcome = Returned(<<>>)

\* an upper-case PDF went to the PDF handler, and a text file to no handler
C32_Witness ==
    /\ \E k \in DOMAIN extractions :
          /\ extractions[k].file.suffix = ".PDF"
          /\ extractions[k].handlers = <<"_extract_pdf">>
          /\ extractions[k].outcome.value # <<>>
    /\ \E k \in DOMAIN extractions :
          /\ extractions[k].file.suffix = ".txt"
          /\ extractions[k].file.opens
          /\ extractions[k].handlers = <<>>

\* the relative paths extract_folder filed under failed
FailedPaths == {extraction.value.failed[n] : n \in DOMAIN extraction.value.failed}

\* C33: extract_folder raises ValueError only when the root is missing or is
\* not a directory; otherwise the relative path of every file of the folder
\* is in exactly one of content (with its text, which is not empty) and failed
\* (extraction gave ""), processed is the number of content entries and
\* total_files is processed plus the number of failed files.
C33_ExtractFolderPartition ==
    extraction # Running =>
        /\ extraction.kind = "raised" <=> path_kind # "directory"
        /\ extraction.kind = "raised" => extraction.exc.type = "ValueError"
        /\ extraction.kind = "returned" =>
              LET res == extraction.value
              IN  /\ \A k \in DOMAIN folder :
                        /\ (<<k>> \in DOMAIN res.content) # (<<k>> \in FailedPaths)
                        /\ <<k>> \in DOMAIN res.content =>
                              /\ res.content[<<k>>] # <<>>
                              /\ res.content[<<k>>] = extract_file(folder[k])
                        /\ <<k>> \in FailedPaths => extract_file(folder[k]) = <<>>
                  /\ res.processed = Cardinality(DOMAIN res.content)
                  /\ res.total_files = res.processed + Len(res.failed)
                  /\ res.total_files = Len(folder)

\* a folder with a file that gave text and a file that gave none
C33_Witness ==
    /\ extraction.kind = "returned"
    /\ extraction.value.processed = 1
    /\ Len(extraction.value.failed) = 1
    /\ \E k \in DOMAIN folder : folder[k].suffix = ".pdf" /\ <<k>> \in FailedPaths

C35_OnlyPacingAndPause ==
    [][now' > now => pc \in {"request", "posting", "idle"}]_vars

\* C35, amended: besides these the client waits in one more place, the
\* backoff of the retry policy: after a failed request that the policy
\* retries, before the second attempt on the same model, for at least WaitMin
\* seconds.  The sleep before a request lasts at least what is missing of the
\* minimum interval.
C35_PacingPauseAndBackoff ==
    [][now' > now =>
          \/ /\ pc = "request"
             /\ SleepTime(now, last_request_time, request_delay) > 0
             /\ now' >= now + SleepTime(now, last_request_time, request_delay)
          \/ pc \in {"posting", "idle"}
          \/ /\ pc = "backoff"
             /\ requests[Len(requests)].result = "failure"
             /\ ShouldRetry(Raised(last_response))
             /\ attempt_number < StopAfterAttempt
             /\ attempt_number' = attempt_number + 1
             /\ i' = i
             /\ now' >= now + WaitMin]_vars

\* the backoff has been waited after a timeout and the second attempt is due
C35_Witness ==
    /\ last_response = "timeout"
    /\ pc = "request"
    /\ attempt_number = 2
    /\ i = 0
    /\ now >= last_request_time + WaitMin

\* the requests of the running call that went to the candidate at idx
RequestsTo(idx) == {k \in DOMAIN requests : requests[k].model = idx}

C39_SuccessHasSummary ==
    (HasReturned /\ outcome.value.success) => outcome.value.summary # <<>>

\* C40: for every budget L >= 1 and every text longer than L, the tail length
\* L - head - 100 of the truncation is positive, and the truncated text has at
\* most L characters, so it is shorter than the text it was cut from.
C40_TruncationShortens ==
    truncated =>
        /\ KeepEnd(context_budget) > 0
        /\ Length(text) <= context_budget
        /\ Length(text) < text_len

\* C36: main writes no report and no JSON file before summarize_folder has
\* returned its result; when the run is interrupted or an exception leaves
\* it, nothing is written, what the run had gathered is dropped, and the
\* process exits with 130 (interrupt) or with 1 (another exception).
C36_NoOutputBeforeResult ==
    /\ written # {} => folder_result.kind = "returned"
    /\ main_pc = "summarizing" => written = {} /\ exit_code = -1
    /\ (main_pc = "exited" /\ folder_result.kind = "raised") =>
          /\ written = {}
          /\ exit_code = IF folder_result.exc.type = "KeyboardInterrupt"
                         THEN 130 ELSE 1

\* the run was interrupted after its first file: a file summary existed,
\* nothing was written, the exit code is 130
C36_Witness ==
    /\ main_pc = "exited"
    /\ folder_result.kind = "raised"
    /\ folder_result.exc.type = "KeyboardInterrupt"
    /\ Len(file_summaries) = 1
    /\ Len(target_files) = 2
    /\ written = {}
    /\ exit_code = 130

\* C38: summarize terminates whatever the backend answers: a call that has
\* started returns a success outcome or the failure of all models; and a
\* folder run terminates with a result once the calls it makes have returned.
C38_Termination ==
    /\ (pc # "idle") ~> (/\ pc = "idle"
                         /\ HasReturned
                         /\ Len(requests) <= StopAfterAttempt * Len(models_to_try))
    /\ (phase \in {"loop", "aggregate"}) ~> (/\ phase = "done"
                                             /\ folder_result.kind = "returned")

\* the call has returned the failure of all models after the second
\* candidate's timeout, the first request of each having been refused
C38_Witness ==
    /\ pc = "idle"
    /\ HasReturned
    /\ ~outcome.value.success
    /\ last_response = "timeout"
    /\ Len(requests) >= 3

====
